---- MODULE Spec2Model ----
(***************************************************************************)
(* TDB: a Bitcask key-value store.  The model follows the source:          *)
(*   log_entry.rs  the record codec (LogEntry, serialize, deserialize)     *)
(*   log_file.rs   one segment (LogFile: new, open, append_entry,          *)
(*                 change_extension, populate_keydir)                      *)
(*   log/mod.rs    the log manager (Log: from_disk, get, append,           *)
(*                 put_on_merge, finish_merge, ...)                        *)
(*   keydir.rs     the in-memory index (KeyDir)                            *)
(*   storage.rs    the facade (Storage: get, put, delete, fold, merge)     *)
(*   bitcask/mod.rs the public handle (BitCask: open, put, delete, ...)    *)
(*                                                                         *)
(* A segment is a sequence of bytes (0..255).  The file system is a        *)
(* directory (name -> inode) and an inode table (inode -> bytes); a        *)
(* LogFile holds the inode of the file it opened, so a handle stays valid  *)
(* across a rename, as on the platforms the program runs on.               *)
(* An Option is a sequence of length 0 (None) or 1 (Some).                 *)
(***************************************************************************)
EXTENDS Integers, Sequences, FiniteSets, TLC

\* ------------------------------------------------------------------ bounds

\* Number of state-changing calls (open, put, delete, merge) in one behaviour;
\* a session is closed, and a byte damaged, only while a call is left to follow.
MaxOps == 5

\* Number of injected faults (failed I/O calls, bytes damaged at rest) in one
\* behaviour of SpecFault.
MaxFaults == 1

\* The segment size limit of the model.  The source's limit is 1_000_000
\* bytes; the records of the model are 21 to 23 bytes long, so that with this
\* limit a segment takes one or two records and rotation happens.
MaxSegmentBytes == 45

\* The calls and the faults of a session of SpecRetry.
MaxRetryOps == 6
MaxRetryFaults == 3

\* The calls of the one thread that fills the store in SpecLock, the open
\* among them.
MaxLockSetup == 3

\* The keys and values the operations draw from.  Values include the
\* zero-length value and values of different lengths.
Keys == {<<1>>, <<2>>}
Values == {<< >>, <<5>>, <<6, 7>>}

\* ------------------------------------------------------------ record codec

None == << >>
Some(x) == <<x>>

\* u64::to_be_bytes / u32::to_be_bytes: w bytes, most significant first.
RECURSIVE to_be_bytes(_, _)
to_be_bytes(n, w) ==
    IF w = 0 THEN << >>
    ELSE Append(to_be_bytes(n \div 256, w - 1), n % 256)

\* from_be_bytes.  The sizes of the model's records fit in the last bytes; a
\* damaged size field with a high byte set decodes to a size that no segment
\* of the model can hold, which is all the decoder needs to know about it.
RECURSIVE from_be_bytes(_)
from_be_bytes(bs) ==
    IF bs = << >> THEN 0
    ELSE LET hi == from_be_bytes(SubSeq(bs, 1, Len(bs) - 1))
         IN  IF hi >= 1000000 THEN 256000000 ELSE hi * 256 + bs[Len(bs)]

CHECKSUM_SIZE == 4
SIZE_SIZE == 8

\* The digest of the crc crate (Crc::<u32>::new(&CRC_32_CKSUM)) is a library
\* outside the repository.  The model keeps what the codec uses of it: a
\* deterministic function of the bytes fed to it, in feeding order, that
\* changes when any single byte changes (a polynomial hash modulo a prime).
RECURSIVE digest_update(_, _)
digest_update(h, bs) ==
    IF bs = << >> THEN h
    ELSE digest_update((h * 31 + Head(bs) + 1) % 65521, Tail(bs))

RECURSIVE digest_run(_, _)
digest_run(h, chunks) ==
    IF chunks = << >> THEN h
    ELSE digest_run(digest_update(h, Head(chunks)), Tail(chunks))

CRC32(chunks) == digest_run(7, chunks)

\* LogEntry { checksum, key, value: Option<Value> }
key_size(e) == Len(e.key)

value_size(e) == IF e.value = None THEN 0 ELSE Len(e.value[1])

total_size(e) == CHECKSUM_SIZE + SIZE_SIZE * 2 + key_size(e) + value_size(e)

is_tombstone(e) == e.value = None

\* A faulty variant of get_value_offset, which forgets the key: the offset it
\* gives is the key's, not the value's.
key_offset(e) == CHECKSUM_SIZE + SIZE_SIZE * 2

get_value_offset(e) == CHECKSUM_SIZE + SIZE_SIZE * 2 + key_size(e)

calculate_checksum(e) ==
    CRC32(<< to_be_bytes(key_size(e), SIZE_SIZE),
             to_be_bytes(value_size(e), SIZE_SIZE),
             e.key >>
          \o (IF e.value # None THEN << e.value[1] >> ELSE << >>))

is_valid(e) == e.checksum = calculate_checksum(e)

new_live_entry(key, value) ==
    LET entry == [checksum |-> 0, key |-> key, value |-> Some(value)]
    IN  [entry EXCEPT !.checksum = calculate_checksum(entry)]

new_tombstone_entry(key) ==
    LET entry == [checksum |-> 0, key |-> key, value |-> None]
    IN  [entry EXCEPT !.checksum = calculate_checksum(entry)]

\* Serialize for LogEntry: the bytes written, in writing order.
serialize(e) ==
    to_be_bytes(e.checksum, CHECKSUM_SIZE)
    \o to_be_bytes(key_size(e), SIZE_SIZE)
    \o to_be_bytes(value_size(e), SIZE_SIZE)
    \o e.key
    \o (IF e.value # None THEN e.value[1] ELSE << >>)

\* The lengths at which one of serialize's write_all calls begins: a write
\* that fails leaves the bytes of the calls before it in the file.
write_starts(e) ==
    {0, CHECKSUM_SIZE, CHECKSUM_SIZE + SIZE_SIZE, CHECKSUM_SIZE + SIZE_SIZE * 2}
    \cup (IF e.value # None THEN {get_value_offset(e)} ELSE {})

\* Every such length, over the records of the model.
TornLengths ==
    {0, CHECKSUM_SIZE, CHECKSUM_SIZE + SIZE_SIZE, CHECKSUM_SIZE + SIZE_SIZE * 2}
    \cup {CHECKSUM_SIZE + SIZE_SIZE * 2 + Len(k) : k \in Keys}

\* Deserialize for LogEntry, reading from the bytes `buf` that are left in the
\* reader.  read_exact fails with an I/O error (UnexpectedEof, which `?` turns
\* into DBError::IOError) when fewer bytes are left than asked for.
deserialize(buf) ==
    LET hdr == CHECKSUM_SIZE + SIZE_SIZE * 2
        io  == [ret |-> "IOError", entry |-> None]
    IN  IF Len(buf) < CHECKSUM_SIZE THEN io
        ELSE IF Len(buf) < CHECKSUM_SIZE + SIZE_SIZE THEN io
        ELSE IF Len(buf) < hdr THEN io
        ELSE
          LET checksum == from_be_bytes(SubSeq(buf, 1, CHECKSUM_SIZE))
              ksz == from_be_bytes(SubSeq(buf, CHECKSUM_SIZE + 1, CHECKSUM_SIZE + SIZE_SIZE))
              vsz == from_be_bytes(SubSeq(buf, CHECKSUM_SIZE + SIZE_SIZE + 1, hdr))
          IN  IF Len(buf) - hdr < ksz THEN io
              ELSE IF vsz > 0 /\ Len(buf) - hdr - ksz < vsz THEN io
              ELSE
                LET entry == [checksum |-> checksum,
                              key |-> SubSeq(buf, hdr + 1, hdr + ksz),
                              value |-> IF vsz > 0
                                        THEN Some(SubSeq(buf, hdr + ksz + 1, hdr + ksz + vsz))
                                        ELSE None]
                IN  IF is_valid(entry)
                    THEN [ret |-> "Ok", entry |-> Some(entry)]
                    ELSE [ret |-> "DataError", entry |-> None]

\* ------------------------------------------------------------- file system

\* A file name is <<file-id, extension>>: "<file-id>.<extension>" in the data
\* directory.
EXTENSION == "tdb"
MERGE_EXTENSION == "merge"
MAX_FILE_SIZE == MaxSegmentBytes

Restrict(f, S) == [x \in S |-> f[x]]

\* The state the operations act on: the Log's fields, the KeyDir, and the data
\* directory (dir: name -> inode, store: inode -> bytes).
EmptyState ==
    [files |-> << >>, cur_file_sz |-> 0,
     merged_files |-> << >>, cur_merged_file_sz |-> 0,
     keydir |-> << >>, dir |-> << >>, store |-> << >>]

\* The inode a newly created file gets: any unused one; the model takes the
\* smallest.
fresh_inode(st) == CHOOSE i \in 0..Cardinality(DOMAIN st.store) : i \notin DOMAIN st.store

\* The file system drops an inode that has no name and no open handle.
reclaim(st) ==
    LET held == {st.dir[n] : n \in DOMAIN st.dir}
                \cup {st.files[i].file : i \in DOMAIN st.files}
                \cup {st.merged_files[i].file : i \in DOMAIN st.merged_files}
    IN  [st EXCEPT !.store = Restrict(st.store, DOMAIN st.store \cap held)]

\* fs::rename(old, new): the name `new` now refers to old's inode, replacing
\* what it referred to; the name `old` is gone.
fs_rename(st, old, new) ==
    [st EXCEPT !.dir = [n \in (DOMAIN st.dir \ {old}) \cup {new} |->
                           IF n = new THEN st.dir[old] ELSE st.dir[n]]]

\* ------------------------------------------------------------------ keydir

KeyDirEntry(file_id, value_sz, value_pos) ==
    [file_id |-> file_id, value_sz |-> value_sz, value_pos |-> value_pos]

keydir_get(keydir, key) == IF key \in DOMAIN keydir THEN Some(keydir[key]) ELSE None

keydir_put(keydir, key, entry) ==
    [k \in DOMAIN keydir \cup {key} |-> IF k = key THEN entry ELSE keydir[k]]

\* A faulty variant of keydir_delete, which removes nothing.
keydir_keep(keydir, key) == keydir

keydir_delete(keydir, key) == Restrict(keydir, DOMAIN keydir \ {key})

\* A faulty variant of key_less, which compares the lengths before the bytes.
length_first(a, b) ==
    Len(a) < Len(b) \/ (Len(a) = Len(b) /\ a # << >> /\ Head(a) < Head(b))

\* Vec<u8>'s Ord, the order of the BTreeMap: lexicographic by bytes.
RECURSIVE key_less(_, _)
key_less(a, b) ==
    IF b = << >> THEN FALSE
    ELSE IF a = << >> THEN TRUE
    ELSE IF Head(a) # Head(b) THEN Head(a) < Head(b)
    ELSE key_less(Tail(a), Tail(b))

RECURSIVE sorted_keys(_)
sorted_keys(S) ==
    IF S = {} THEN << >>
    ELSE LET m == CHOOSE x \in S : \A y \in S \ {x} : key_less(x, y)
         IN  <<m>> \o sorted_keys(S \ {m})

keydir_list_keys(keydir) == sorted_keys(DOMAIN keydir)

\* ----------------------------------------------------------------- LogFile

\* LogFile { file_id, path, file }: path is the name the handle carries, file
\* the inode it holds open.

\* LogFile::new: create(true).read(true).append(true).open(path).
LogFile_new(st, file_id, extension) ==
    LET path == <<file_id, extension>>
    IN  IF path \in DOMAIN st.dir
        THEN [st |-> st,
              file |-> [file_id |-> file_id, path |-> path, file |-> st.dir[path]]]
        ELSE LET ino == fresh_inode(st)
             IN  [st |-> [st EXCEPT !.dir = path :> ino @@ st.dir,
                                    !.store = ino :> << >> @@ st.store],
                  file |-> [file_id |-> file_id, path |-> path, file |-> ino]]

\* LogFile::populate_keydir: the recovery scan of one segment.
\* scan is the loop, scan_entry its body once LogEntry::deserialize has
\* returned `d`; `buf` is what the reader has not yet consumed.
RECURSIVE scan(_, _, _, _, _)
RECURSIVE scan_entry(_, _, _, _, _, _)
scan(buf, cursor, file_sz, file_id, keydir) ==
    IF cursor >= file_sz THEN [ret |-> "Ok", keydir |-> keydir]
    ELSE scan_entry(deserialize(buf), buf, cursor, file_sz, file_id, keydir)

scan_entry(d, buf, cursor, file_sz, file_id, keydir) ==
    IF d.ret # "Ok" THEN [ret |-> d.ret, keydir |-> keydir]
    ELSE
      LET log_entry == d.entry[1]
          log_entry_size == total_size(log_entry)
      IN  scan(SubSeq(buf, log_entry_size + 1, Len(buf)),
               cursor + log_entry_size, file_sz, file_id,
               IF is_tombstone(log_entry)
               THEN keydir_delete(keydir, log_entry.key)
               ELSE keydir_put(keydir, log_entry.key,
                               KeyDirEntry(file_id, value_size(log_entry),
                                           cursor + get_value_offset(log_entry))))

populate_keydir(bytes, file_id, keydir) == scan(bytes, 0, Len(bytes), file_id, keydir)

\* LogFile::open: open the existing file and scan it into the keydir.
opened(r, file) == [ret |-> r.ret, keydir |-> r.keydir, file |-> file]

LogFile_open(st, file_id, path, keydir) ==
    opened(populate_keydir(st.store[st.dir[path]], file_id, keydir),
           [file_id |-> file_id, path |-> path, file |-> st.dir[path]])

\* LogFile::append_entry.  `torn` is None, or Some(n) when the write_all that
\* starts at byte n of the record fails (n = 0: the seek, or the first write);
\* a write of no bytes cannot fail.
append_entry(st, log_file, entry, torn) ==
    LET old == st.store[log_file.file]
        value_pos == Len(old) + get_value_offset(entry)
        bytes == serialize(entry)
    IN  IF torn = None \/ torn[1] \notin write_starts(entry) \/ torn[1] >= Len(bytes)
        THEN [ret |-> "Ok", value_pos |-> value_pos,
              st |-> [st EXCEPT !.store[log_file.file] = old \o bytes]]
        ELSE [ret |-> "IOError", value_pos |-> 0,
              st |-> [st EXCEPT !.store[log_file.file] = old \o SubSeq(bytes, 1, torn[1])]]

\* LogFile::change_extension on files[i]; `fail`: fs::rename fails.  The
\* handle's path is set before the rename is tried.
change_extension(st, i, fail) ==
    LET old_path == st.files[i].path
        new_path == <<old_path[1], EXTENSION>>
        st1 == [st EXCEPT !.files[i].path = new_path]
    IN  IF fail \/ old_path \notin DOMAIN st.dir
        THEN [ret |-> "IOError", st |-> st1]
        ELSE [ret |-> "Ok", st |-> IF old_path = new_path THEN st1
                                   ELSE fs_rename(st1, old_path, new_path)]

\* --------------------------------------------------------------------- Log

\* A fault is NoFault or one failing I/O call of the operation:
\*   [at |-> "new"]                 the LogFile::new that creates a segment
\*   [at |-> "write", n |-> n]      the append, after n bytes of the record
\*   [at |-> "read"]                a read of Log::get (merge reads each value)
\*   [at |-> "rename"]              a rename of finish_merge
\* and, for merge, `idx`: the position of the key (or of the segment, for a
\* rename) at which the call fails.
NoFault == [at |-> "none"]

Last(seq) == seq[Len(seq)]

\* Log::get_file: self.files.get(file_id as usize).unwrap()
get_file(st, file_id) ==
    IF file_id + 1 \in DOMAIN st.files THEN Some(st.files[file_id + 1]) ELSE None

\* Log::get: seek to value_pos, read_exact value_sz bytes.
Log_get(st, keydir_entry) ==
    LET f == get_file(st, keydir_entry.file_id) IN
    IF f = None THEN [ret |-> "panic", out |-> None]
    ELSE LET bytes == st.store[f[1].file]
             from  == keydir_entry.value_pos
             sz    == keydir_entry.value_sz
         IN  IF sz > 0 /\ from + sz > Len(bytes)
             THEN [ret |-> "IOError", out |-> None]
             ELSE [ret |-> "Ok", out |-> Some(SubSeq(bytes, from + 1, from + sz))]

\* A faulty variant of create_new_file, which lets the byte counter run on
\* from the previous segment's.
create_counting_on(st) ==
    LET next_file_id == Last(st.files).file_id + 1
        n == LogFile_new(st, next_file_id, EXTENSION)
    IN  [n.st EXCEPT !.files = Append(@, n.file)]

\* Log::create_new_file (the caller has checked that files is not empty).
create_new_file(st) ==
    LET next_file_id == Last(st.files).file_id + 1
        n == LogFile_new(st, next_file_id, EXTENSION)
    IN  [n.st EXCEPT !.files = Append(@, n.file), !.cur_file_sz = 0]

\* Log::create_new_merge_file
create_new_merge_file(st) ==
    LET next_file_id == IF st.merged_files # << >>
                        THEN Last(st.merged_files).file_id + 1
                        ELSE 0
        n == LogFile_new(st, next_file_id, MERGE_EXTENSION)
    IN  [n.st EXCEPT !.merged_files = Append(@, n.file), !.cur_merged_file_sz = 0]

\* Log::append.  With no segment in the list, last().unwrap() panics (in
\* create_new_file or in get_current_file).
\* The end of append and of put_on_merge: append_entry has returned `a`.
appended(a, log_file, entry) ==
    IF a.ret # "Ok" THEN [ret |-> a.ret, st |-> a.st, entry |-> None]
    ELSE [ret |-> "Ok", st |-> a.st,
          entry |-> Some(KeyDirEntry(log_file.file_id, value_size(entry), a.value_pos))]

\* append, from the counter's update on: st1 is the state after the rotation,
\* if there was one.
append_current(st1, entry, fault) ==
    LET st2 == [st1 EXCEPT !.cur_file_sz = @ + total_size(entry)]
        log_file == Last(st1.files)
    IN  appended(append_entry(st2, log_file, entry,
                              IF fault.at = "write" THEN Some(fault.n) ELSE None),
                 log_file, entry)

append(st, entry, fault) ==
    LET entry_sz == total_size(entry)
        rotate == st.cur_file_sz + entry_sz > MAX_FILE_SIZE
    IN  IF st.files = << >> THEN [ret |-> "panic", st |-> st, entry |-> None]
        ELSE IF rotate /\ fault.at = "new" THEN [ret |-> "IOError", st |-> st, entry |-> None]
        ELSE append_current(IF rotate THEN create_new_file(st) ELSE st, entry, fault)

Log_put(st, key, value, fault) == append(st, new_live_entry(key, value), fault)

Log_delete(st, key, fault) == append(st, new_tombstone_entry(key), fault)

\* Log::put_on_merge
put_on_merge_current(st1, entry, fault) ==
    LET st2 == [st1 EXCEPT !.cur_merged_file_sz = @ + total_size(entry)]
        log_file == Last(st1.merged_files)
    IN  appended(append_entry(st2, log_file, entry,
                              IF fault.at = "write" THEN Some(fault.n) ELSE None),
                 log_file, entry)

put_on_merge_entry(st, entry, fault) ==
    LET entry_sz == total_size(entry)
        create == st.cur_merged_file_sz + entry_sz > MAX_FILE_SIZE
                  \/ st.cur_merged_file_sz = 0
    IN  IF create /\ fault.at = "new" THEN [ret |-> "IOError", st |-> st, entry |-> None]
        ELSE put_on_merge_current(IF create THEN create_new_merge_file(st) ELSE st,
                                  entry, fault)

Log_put_on_merge(st, key, value, fault) ==
    put_on_merge_entry(st, new_live_entry(key, value), fault)

\* Log::finish_merge.  The old handles are dropped when the list is replaced;
\* the renames follow, in list order, and stop at the first that fails.
RECURSIVE rename_all(_, _, _)
RECURSIVE renamed(_, _, _)
rename_all(st, i, fault) ==
    IF i > Len(st.files) THEN [ret |-> "Ok", st |-> st]
    ELSE renamed(change_extension(st, i, fault.at = "rename" /\ fault.idx = i), i, fault)

renamed(r, i, fault) == IF r.ret # "Ok" THEN r ELSE rename_all(r.st, i + 1, fault)

finish_merge(st, fault) ==
    LET st1 == [st EXCEPT !.cur_file_sz = st.cur_merged_file_sz,
                          !.cur_merged_file_sz = 0,
                          !.files = st.merged_files,
                          !.merged_files = << >>]
    IN  rename_all(st1, 1, fault)

\* Log::sync: File::flush on every handle, which writes nothing (a File has
\* no buffer of its own) and does not fail.
Log_sync(st) == [ret |-> "Ok", st |-> st]

\* Log::to_log_files.  `paths` is the directory listing, in the order read_dir
\* returned it; every file is opened and scanned in that order, and the list
\* is sorted by file-id afterwards.
RECURSIVE open_all(_, _, _, _)
RECURSIVE open_next(_, _, _, _)
open_all(st, paths, keydir, acc) ==
    IF paths = << >> THEN [ret |-> "Ok", keydir |-> keydir, files |-> acc]
    ELSE open_next(LogFile_open(st, Head(paths)[1], Head(paths), keydir),
                   st, Tail(paths), acc)

open_next(o, st, paths, acc) ==
    IF o.ret # "Ok" THEN [ret |-> o.ret, keydir |-> o.keydir, files |-> << >>]
    ELSE open_all(st, paths, o.keydir, Append(acc, o.file))

RECURSIVE sort_by_key(_)
sort_by_key(files) ==
    IF files = << >> THEN << >>
    ELSE LET i == CHOOSE i \in DOMAIN files :
                    \A j \in DOMAIN files : files[i].file_id <= files[j].file_id
         IN  <<files[i]>> \o sort_by_key(SubSeq(files, 1, i - 1)
                                         \o SubSeq(files, i + 1, Len(files)))

sorted_files(o) == IF o.ret # "Ok" THEN o ELSE [o EXCEPT !.files = sort_by_key(o.files)]

to_log_files(st, paths, keydir) == sorted_files(open_all(st, paths, keydir, << >>))

\* Log::from_disk on the directory of `st`, whose listing is `paths`;
\* from_files is from_disk once to_log_files has returned `o`.
new_log(n, o) ==
    [ret |-> "Ok",
     st |-> [n.st EXCEPT !.files = Append(o.files, n.file),
                         !.cur_file_sz = 0,
                         !.merged_files = << >>,
                         !.cur_merged_file_sz = 0,
                         !.keydir = o.keydir]]

from_files(st, o) ==
    IF o.ret # "Ok" THEN [ret |-> o.ret, st |-> st]
    ELSE new_log(LogFile_new(st, IF Len(o.files) = 0 THEN 0
                                 ELSE Last(o.files).file_id + 1, EXTENSION), o)

from_disk(st, paths) == from_files(st, to_log_files(st, paths, << >>))

\* ----------------------------------------------------------------- Storage

\* Storage::get
got(g) == IF g.ret # "Ok" THEN g ELSE [ret |-> "Ok", out |-> Some(g.out[1])]

Storage_get(st, key) ==
    LET keydir_entry == keydir_get(st.keydir, key) IN
    IF keydir_entry = None THEN [ret |-> "Ok", out |-> None]
    ELSE got(Log_get(st, keydir_entry[1]))

\* Storage::put: the keydir is written after the append has succeeded.
put_keydir(a, key) ==
    IF a.ret # "Ok" THEN [ret |-> a.ret, st |-> a.st]
    ELSE [ret |-> "Ok",
          st |-> [a.st EXCEPT !.keydir = keydir_put(a.st.keydir, key, a.entry[1])]]

Storage_put(st, key, value, fault) == put_keydir(Log_put(st, key, value, fault), key)

\* Storage::delete
delete_keydir(a, key) ==
    IF a.ret # "Ok" THEN [ret |-> a.ret, st |-> a.st]
    ELSE [ret |-> "Ok", st |-> [a.st EXCEPT !.keydir = keydir_delete(a.st.keydir, key)]]

Storage_delete(st, key, fault) == delete_keydir(Log_delete(st, key, fault), key)

\* Storage::list_keys
Storage_list_keys(st) == keydir_list_keys(st.keydir)

\* Storage::fold, with the function that appends <<key, value>> to the
\* accumulator: every other fold is a function of this one's result.
RECURSIVE fold_loop(_, _, _)
RECURSIVE fold_step(_, _, _, _)
fold_loop(st, keys, acc) ==
    IF keys = << >> THEN [ret |-> "Ok", out |-> acc]
    ELSE fold_step(Storage_get(st, Head(keys)), st, keys, acc)

fold_step(g, st, keys, acc) ==
    IF g.ret # "Ok" THEN [ret |-> g.ret, out |-> << >>]
    ELSE IF g.out = None THEN [ret |-> "panic", out |-> << >>]
    ELSE fold_loop(st, Tail(keys), Append(acc, <<Head(keys), g.out[1]>>))

Storage_fold(st) == fold_loop(st, keydir_list_keys(st.keydir), << >>)

\* A faulty variant of Storage_put_on_merge, which leaves the keydir entry
\* pointing at the record's old position.
put_on_merge_log_only(st, key, value, fault) ==
    [ret |-> Log_put_on_merge(st, key, value, fault).ret,
     st |-> Log_put_on_merge(st, key, value, fault).st]

\* Storage::put_on_merge
Storage_put_on_merge(st, key, value, fault) ==
    put_keydir(Log_put_on_merge(st, key, value, fault), key)

\* Storage::merge: the loop over the snapshot of the keys (merge_loop; merge_get
\* and merge_put are its body after get and after put_on_merge have returned),
\* then finish_merge.
RECURSIVE merge_loop(_, _, _, _)
RECURSIVE merge_get(_, _, _, _, _)
RECURSIVE merge_put(_, _, _, _)
merge_loop(st, keys, i, fault) ==
    IF i > Len(keys) THEN [ret |-> "Ok", st |-> st]
    ELSE merge_get(IF fault.at = "read" /\ fault.idx = i
                   THEN [ret |-> "IOError", out |-> None]
                   ELSE Storage_get(st, keys[i]),
                   st, keys, i, fault)

merge_get(g, st, keys, i, fault) ==
    IF g.ret # "Ok" THEN [ret |-> g.ret, st |-> st]
    ELSE IF g.out = None THEN [ret |-> "panic", st |-> st]
    ELSE merge_put(Storage_put_on_merge(st, keys[i], g.out[1],
                                        IF fault.at \in {"new", "write"} /\ fault.idx = i
                                        THEN fault ELSE NoFault),
                   keys, i, fault)

merge_put(p, keys, i, fault) ==
    IF p.ret # "Ok" THEN p ELSE merge_loop(p.st, keys, i + 1, fault)

merge_finished(f) == [ret |-> f.ret, st |-> reclaim(f.st)]

merge_looped(m, fault) ==
    IF m.ret # "Ok" THEN m ELSE merge_finished(finish_merge(m.st, fault))

Storage_merge(st, fault) ==
    merge_looped(merge_loop(st, keydir_list_keys(st.keydir), 1, fault), fault)

\* Storage::new: create_dir_all, an empty keydir, Log::from_disk.
Storage_new(st, paths) == from_disk([st EXCEPT !.keydir = << >>], paths)

\* ----------------------------------------------------------------- BitCask

\* A faulty variant of BitCask_put, which does not look at is_mutable.
put_ungated(st, is_mutable, key, value, fault) == Storage_put(st, key, value, fault)

\* BitCask::put / BitCask::delete: the writability gate, then the storage.
BitCask_put(st, is_mutable, key, value, fault) ==
    IF is_mutable THEN Storage_put(st, key, value, fault)
    ELSE [ret |-> "OptionError", st |-> st]

BitCask_delete(st, is_mutable, key, fault) ==
    IF is_mutable THEN Storage_delete(st, key, fault)
    ELSE [ret |-> "OptionError", st |-> st]

\* BitCask::get, list_keys, fold, merge, sync
BitCask_get(st, key) == Storage_get(st, key)

BitCask_list_keys(st) == [ret |-> "Ok", out |-> Storage_list_keys(st)]

BitCask_fold(st) == Storage_fold(st)

BitCask_merge(st, fault) == Storage_merge(st, fault)

BitCask_sync(st) == Log_sync(st)

\* The end of a session: the handle is dropped (after close, or by a panic
\* unwinding through the caller), the data directory stays.
drop_handle(st) ==
    reclaim([st EXCEPT !.files = << >>, !.cur_file_sz = 0,
                       !.merged_files = << >>, !.cur_merged_file_sz = 0,
                       !.keydir = << >>])

\* BitCask::close (sync), after which the session ends.
closed(s) == [ret |-> s.ret, st |-> drop_handle(s.st)]

BitCask_close(st) == closed(BitCask_sync(st))

\* What a client can observe of an open store: get of every key, list_keys,
\* and fold.
View(st) ==
    [get |-> [k \in Keys |-> BitCask_get(st, k)],
     list_keys |-> BitCask_list_keys(st),
     fold |-> BitCask_fold(st)]

NoView == << >>

\* ------------------------------------------------------------------- state

VARIABLES
    phase,               \* "down": no engine; "up": a BitCask handle is open
    mutable,             \* BitCask.mutable
    files,               \* Log.files
    cur_file_sz,         \* Log.cur_file_sz
    merged_files,        \* Log.merged_files
    cur_merged_file_sz,  \* Log.cur_merged_file_sz
    keydir,              \* Storage.keydir
    dir,                 \* the data directory: file name -> inode
    store,               \* inode -> the file's bytes
    res,                 \* the last call and what it returned
    nops,                \* state-changing calls so far
    nfaults,             \* faults injected so far
    last,                \* per key, the last write acknowledged in this session
    closedView,          \* View at the last close, until the next write
    codec,               \* the record codec on its own (SpecCodec)
    lock,                \* BitCask.storage's RwLock: who holds it, and how
    threads,             \* per thread, the call it is in and how far it is
    cursor               \* inode -> the position of the segment's File

vars == <<phase, mutable, files, cur_file_sz, merged_files, cur_merged_file_sz,
          keydir, dir, store, res, nops, nfaults, last, closedView, codec,
          lock, threads, cursor>>

\* What the calls of a single thread leave alone.
conc == <<lock, threads, cursor>>

Cur ==
    [files |-> files, cur_file_sz |-> cur_file_sz,
     merged_files |-> merged_files, cur_merged_file_sz |-> cur_merged_file_sz,
     keydir |-> keydir, dir |-> dir, store |-> store]

Install(st) ==
    /\ files' = st.files
    /\ cur_file_sz' = st.cur_file_sz
    /\ merged_files' = st.merged_files
    /\ cur_merged_file_sz' = st.cur_merged_file_sz
    /\ keydir' = st.keydir
    /\ dir' = st.dir
    /\ store' = st.store

Result(op, key, value, ret, out) ==
    [op |-> op, key |-> key, value |-> value, ret |-> ret, out |-> out]

NoWrites == [k \in Keys |-> << >>]

\* A call has returned `r` (ret, st): a panic ends the session.
Return(r) ==
    IF r.ret = "panic"
    THEN /\ Install(drop_handle(r.st))
         /\ phase' = "down"
         /\ last' = NoWrites
    ELSE /\ Install(r.st)
         /\ phase' = phase

\* The threads that call the engine in SpecLock; a thread is idle until it
\* makes its call.
Threads == {1, 2}

\* The state before the first open: an empty data directory.
Init ==
    /\ phase = "down"
    /\ mutable = FALSE
    /\ files = << >>
    /\ cur_file_sz = 0
    /\ merged_files = << >>
    /\ cur_merged_file_sz = 0
    /\ keydir = << >>
    /\ dir = << >>
    /\ store = << >>
    /\ res = Result("none", None, None, "Ok", << >>)
    /\ nops = 0
    /\ nfaults = 0
    /\ last = NoWrites
    /\ closedView = NoView
    /\ codec = [stage |-> "idle"]
    /\ lock = [readers |-> {}, writer |-> None]
    /\ threads = [t \in Threads |-> [pc |-> "idle"]]
    /\ cursor = << >>

\* The "tdb" files of the directory, in every order read_dir may list them.
RECURSIVE Orders(_)
Orders(S) ==
    IF S = {} THEN {<< >>}
    ELSE UNION {{<<x>> \o t : t \in Orders(S \ {x})} : x \in S}

TdbPaths(d) == {n \in DOMAIN d : n[2] = EXTENSION}

\* BitCask::open (is_mutable = FALSE) and BitCask::open_with_opts; OpenReturn
\* is the step once Storage::new has returned `r`.
OpenReturn(is_mutable, r) ==
    /\ Install(r.st)
    /\ phase' = IF r.ret = "Ok" THEN "up" ELSE "down"
    /\ mutable' = (r.ret = "Ok" /\ is_mutable)
    /\ res' = Result("open", None, None, r.ret, << >>)
    /\ nops' = nops + 1
    /\ last' = NoWrites
    /\ UNCHANGED <<nfaults, closedView, codec, conc>>

Open(is_mutable, paths) ==
    /\ phase = "down"
    /\ nops < MaxOps
    /\ OpenReturn(is_mutable, Storage_new(Cur, paths))

\* A writing call has returned `r`; `wrote` is what it has acknowledged.
WriteReturn(op, key, value, wrote, r) ==
    /\ Return(r)
    /\ res' = Result(op, key, value, r.ret, << >>)
    /\ IF r.ret = "panic" THEN TRUE
       ELSE IF r.ret = "Ok" /\ key # None /\ key[1] \in DOMAIN last
       THEN last' = [last EXCEPT ![key[1]] = wrote]
       ELSE last' = last
    /\ nops' = IF r.ret = "OptionError" THEN nops ELSE nops + 1
    /\ closedView' = IF r.ret = "OptionError" THEN closedView ELSE NoView
    /\ UNCHANGED <<mutable, codec, conc>>

PutWith(key, value, fault) ==
    /\ phase = "up"
    /\ WriteReturn("put", Some(key), Some(value), <<"put", value>>,
                   BitCask_put(Cur, mutable, key, value, fault))

DeleteWith(key, fault) ==
    /\ phase = "up"
    /\ WriteReturn("delete", Some(key), None, <<"delete">>,
                   BitCask_delete(Cur, mutable, key, fault))

MergeWith(fault) ==
    /\ phase = "up"
    /\ WriteReturn("merge", None, None, << >>, BitCask_merge(Cur, fault))

\* The calls of a session of at most `ops` calls, none of which meets a fault.
PutIn(ops, key, value) ==
    /\ nops < ops
    /\ PutWith(key, value, NoFault)
    /\ UNCHANGED nfaults

DeleteIn(ops, key) ==
    /\ nops < ops
    /\ DeleteWith(key, NoFault)
    /\ UNCHANGED nfaults

MergeIn(ops) ==
    /\ nops < ops
    /\ MergeWith(NoFault)
    /\ UNCHANGED nfaults

Put(key, value) == PutIn(MaxOps, key, value)

Delete(key) == DeleteIn(MaxOps, key)

Merge == MergeIn(MaxOps)

\* The calls that leave the storage as it is: they change only what the
\* caller has seen.
Reads(op, key, r) ==
    /\ phase = "up"
    /\ res' = Result(op, key, None, r.ret, r.out)
    /\ UNCHANGED <<phase, mutable, files, cur_file_sz, merged_files, cur_merged_file_sz,
                   keydir, dir, store, nops, nfaults, last, closedView, codec, conc>>

Sync == Reads("sync", None, [ret |-> BitCask_sync(Cur).ret, out |-> << >>])

CloseReturn(r) ==
    /\ Install(r.st)
    /\ res' = Result("close", None, None, r.ret, << >>)
    /\ phase' = "down"
    /\ mutable' = FALSE
    /\ last' = NoWrites
    /\ closedView' = View(Cur)
    /\ UNCHANGED <<nops, nfaults, codec, conc>>

Close ==
    /\ phase = "up"
    /\ nops < MaxOps
    /\ CloseReturn(BitCask_close(Cur))

Get(key) == Reads("get", Some(key), BitCask_get(Cur, key))

ListKeys == Reads("list_keys", None, BitCask_list_keys(Cur))

Fold == Reads("fold", None, BitCask_fold(Cur))

NextWrite ==
    \/ \E m \in BOOLEAN : \E paths \in Orders(TdbPaths(dir)) : Open(m, paths)
    \/ \E k \in Keys : \E v \in Values : Put(k, v)
    \/ \E k \in Keys : Delete(k)
    \/ Merge
    \/ Close

NextRead ==
    \/ Sync
    \/ \E k \in Keys : Get(k)
    \/ ListKeys
    \/ Fold

Next == NextWrite \/ NextRead

Spec == Init /\ [][Next]_vars

\* ------------------------------------------------------------------ faults

\* SpecFault adds the failures of the environment: an I/O call of put, delete
\* or merge that fails, and a byte of a segment damaged while no engine is
\* open.  A faulty call is one whose fault was hit (the call failed).

AppendFaults == {[at |-> "new"]} \cup {[at |-> "write", n |-> n] : n \in TornLengths}

MergeFaults ==
    {[at |-> a, idx |-> i, n |-> 0] :
        a \in {"read", "new", "rename"}, i \in 1..Cardinality(Keys)}
    \cup {[at |-> "write", idx |-> i, n |-> n] :
            i \in 1..Cardinality(Keys), n \in TornLengths}

Faulty(r) ==
    /\ r.ret = "IOError"
    /\ nfaults' = nfaults + 1

\* The faulty calls of a session of at most `ops` calls and `faults` faults.
PutFaultIn(ops, faults, key, value, fault) ==
    /\ nfaults < faults
    /\ nops < ops
    /\ mutable
    /\ Faulty(BitCask_put(Cur, mutable, key, value, fault))
    /\ PutWith(key, value, fault)

DeleteFaultIn(ops, faults, key, fault) ==
    /\ nfaults < faults
    /\ nops < ops
    /\ mutable
    /\ Faulty(BitCask_delete(Cur, mutable, key, fault))
    /\ DeleteWith(key, fault)

\* The fault is hit when the merge fails where the fault-free merge does not.
MergeFaultIn(ops, faults, fault) ==
    /\ nfaults < faults
    /\ nops < ops
    /\ phase = "up"
    /\ BitCask_merge(Cur, NoFault).ret = "Ok"
    /\ Faulty(BitCask_merge(Cur, fault))
    /\ MergeWith(fault)

PutFault(key, value, fault) == PutFaultIn(MaxOps, MaxFaults, key, value, fault)

DeleteFault(key, fault) == DeleteFaultIn(MaxOps, MaxFaults, key, fault)

MergeFault(fault) == MergeFaultIn(MaxOps, MaxFaults, fault)

\* One byte of a "tdb" file changes while the store is closed: in the file's
\* first record, the low byte of the checksum, of the key size or of the value
\* size, or the first byte after the header.
DamageAt == {CHECKSUM_SIZE, CHECKSUM_SIZE + SIZE_SIZE, CHECKSUM_SIZE + SIZE_SIZE * 2,
             CHECKSUM_SIZE + SIZE_SIZE * 2 + 1}

Damage(path, i) ==
    /\ phase = "down"
    /\ nfaults < MaxFaults
    /\ nops < MaxOps
    /\ path \in TdbPaths(dir)
    /\ i \in DOMAIN store[dir[path]]
    /\ store' = [store EXCEPT ![dir[path]][i] = (@ + 1) % 256]
    /\ nfaults' = nfaults + 1
    /\ res' = Result("none", None, None, "Ok", << >>)
    /\ UNCHANGED <<phase, mutable, files, cur_file_sz, merged_files, cur_merged_file_sz,
                   keydir, dir, nops, last, closedView, codec, conc>>

NextFault ==
    \/ NextWrite
    \/ \E k \in Keys : \E v \in Values : \E f \in AppendFaults : PutFault(k, v, f)
    \/ \E k \in Keys : \E f \in AppendFaults : DeleteFault(k, f)
    \/ \E f \in MergeFaults : MergeFault(f)
    \/ \E path \in DOMAIN dir : \E i \in DamageAt : Damage(path, i)

SpecFault == Init /\ [][NextFault]_vars

\* ----------------------------------------------------------- failed merges

\* SpecRetry is one read-write session on a new directory in which merges
\* fail and are tried again, and a put or a delete fails after them.
\* Its faults are the failures of a call before it has written anything.
RetryAppendFaults == {f \in AppendFaults : f.at = "write" => f.n = 0}

RetryMergeFaults == {f \in MergeFaults : f.n = 0}

NextRetry ==
    \/ dir = << >> /\ Open(TRUE, << >>)
    \/ \E k \in Keys : \E v \in Values : PutIn(MaxRetryOps, k, v)
    \/ \E f \in RetryMergeFaults : MergeFaultIn(MaxRetryOps, MaxRetryFaults, f)
    \/ \E k \in Keys : \E v \in Values : \E f \in RetryAppendFaults :
          PutFaultIn(MaxRetryOps, MaxRetryFaults, k, v, f)
    \/ \E k \in Keys : \E f \in RetryAppendFaults :
          DeleteFaultIn(MaxRetryOps, MaxRetryFaults, k, f)

SpecRetry == Init /\ [][NextRetry]_vars

\* --------------------------------------------------------------- key order

\* SpecOrder is one read-write session on a new directory whose keys are of
\* different lengths: the empty key, a key and a key it is a prefix of, and a
\* key with a greater first byte.
OrderKeys == {<< >>, <<1>>, <<1, 1>>, <<2>>}

OrderValues == {<<5>>, <<6, 7>>}

NextOrder ==
    \/ dir = << >> /\ Open(TRUE, << >>)
    \/ \E k \in OrderKeys : \E v \in OrderValues : PutIn(MaxOps, k, v)
    \/ \E k \in OrderKeys : DeleteIn(MaxOps, k)
    \/ MergeIn(MaxOps)
    \/ ListKeys
    \/ Fold

SpecOrder == Init /\ [][NextOrder]_vars

\* ----------------------------------------------------------------- threads

\* SpecLock: the engine is opened and filled by one thread, and then every
\* thread makes one call of the facade.  A call takes the lock of
\* BitCask.storage (Acquire), runs inside the storage step by step, and gives
\* the lock back when it returns (Release).  A read is two steps, the seek and
\* the read of the segment's File; a merge is a step per key and a step for
\* finish_merge.

\* A facade that takes the lock in shared mode whatever the call.
all_shared(op) == "read"

\* storage.read() in get, list_keys and fold; storage.write() in put, delete,
\* merge, sync and close (which calls sync).
LockMode(op) == IF op \in {"get", "list_keys", "fold"} THEN "read" ELSE "write"

NewCall(op, key, value) ==
    [pc |-> "wait", op |-> op, key |-> key, value |-> value, stage |-> "start",
     keys |-> << >>, acc |-> << >>, entry |-> None,
     out |-> [ret |-> "none", out |-> None]]

LockCalls ==
    {NewCall("get", Some(k), None) : k \in Keys}
    \cup {NewCall(op, None, None) : op \in {"list_keys", "fold", "merge", "sync", "close"}}
    \cup {NewCall("put", Some(<<1>>), Some(<<6, 7>>)), NewCall("delete", Some(<<2>>), None)}

EngineSame ==
    UNCHANGED <<phase, mutable, files, cur_file_sz, merged_files, cur_merged_file_sz,
                keydir, dir, store, nops, nfaults, last, closedView, codec>>

Call(t, c) ==
    /\ phase = "up"
    /\ threads[t].pc = "idle"
    /\ threads' = [threads EXCEPT ![t] = c]
    /\ EngineSame
    /\ UNCHANGED <<res, lock, cursor>>

\* BitCask::put and BitCask::delete on a read-only engine return before they
\* take the lock.
Refuse(t) ==
    /\ phase = "up"
    /\ threads[t].pc = "wait"
    /\ threads[t].op \in {"put", "delete"}
    /\ ~mutable
    /\ threads' = [threads EXCEPT ![t] = [pc |-> "done"]]
    /\ res' = Result(threads[t].op, threads[t].key, threads[t].value, "OptionError", << >>)
    /\ EngineSame
    /\ UNCHANGED <<lock, cursor>>

\* The call's first look at the storage, once it holds the lock: Storage::get
\* looks the key up, Storage::fold and Storage::merge take list_keys.
Entered(c, kd) ==
    CASE c.op = "get" ->
           IF c.key[1] \in DOMAIN kd
           THEN [c EXCEPT !.pc = "in", !.stage = "seek", !.keys = <<c.key[1]>>]
           ELSE [c EXCEPT !.pc = "in", !.stage = "ret", !.out = [ret |-> "Ok", out |-> None]]
      [] c.op = "list_keys" ->
           [c EXCEPT !.pc = "in", !.stage = "ret",
                     !.out = [ret |-> "Ok", out |-> keydir_list_keys(kd)]]
      [] c.op = "fold" ->
           IF kd = << >>
           THEN [c EXCEPT !.pc = "in", !.stage = "ret", !.out = [ret |-> "Ok", out |-> << >>]]
           ELSE [c EXCEPT !.pc = "in", !.stage = "seek", !.keys = keydir_list_keys(kd)]
      [] c.op = "merge" ->
           [c EXCEPT !.pc = "in", !.stage = "merge", !.keys = keydir_list_keys(kd)]
      [] OTHER -> [c EXCEPT !.pc = "in", !.stage = "run"]

\* RwLock::read and RwLock::write: a reader waits while a writer holds the
\* lock, a writer while anyone does.
Acquire(t) ==
    /\ phase = "up"
    /\ threads[t].pc = "wait"
    /\ threads[t].op \in {"put", "delete"} => mutable
    /\ lock.writer = None
    /\ IF LockMode(threads[t].op) = "read"
       THEN lock' = [lock EXCEPT !.readers = @ \cup {t}]
       ELSE lock.readers = {} /\ lock' = [lock EXCEPT !.writer = Some(t)]
    /\ threads' = [threads EXCEPT ![t] = Entered(threads[t], keydir)]
    /\ EngineSame
    /\ UNCHANGED <<res, cursor>>

\* Seek on the File: the position is the File's, whoever reads through it.
file_seek(c, f, pos) == [x \in DOMAIN c \cup {f} |-> IF x = f THEN pos ELSE c[x]]

\* read_exact of sz bytes at the File's position.
read_exact(bytes, from, sz) ==
    IF sz = 0 THEN [ret |-> "Ok", out |-> << >>, pos |-> from]
    ELSE IF from + sz <= Len(bytes)
    THEN [ret |-> "Ok", out |-> SubSeq(bytes, from + 1, from + sz), pos |-> from + sz]
    ELSE [ret |-> "IOError", out |-> << >>,
          pos |-> IF from < Len(bytes) THEN Len(bytes) ELSE from]

\* Log::get, first half: get_file and buf_reader.seek(Start(value_pos)), for
\* the key a get or a fold is at.
Seek(t) ==
    /\ phase = "up"
    /\ threads[t].pc = "in"
    /\ threads[t].stage = "seek"
    /\ \E k \in {Head(threads[t].keys)} :
          IF k \notin DOMAIN keydir \/ get_file(Cur, keydir[k].file_id) = None
          THEN /\ threads' = [threads EXCEPT ![t].stage = "ret",
                                             ![t].out = [ret |-> "panic", out |-> None]]
               /\ cursor' = cursor
          ELSE /\ threads' = [threads EXCEPT ![t].stage = "read",
                                             ![t].entry = Some(keydir[k])]
               /\ cursor' = file_seek(cursor, get_file(Cur, keydir[k].file_id)[1].file,
                                       keydir[k].value_pos)
    /\ EngineSame
    /\ UNCHANGED <<res, lock>>

\* Log::get, second half: read_exact on the File `f`, which returns `r`.  A
\* get returns the bytes, a fold goes on to its next key.
Read(t) ==
    /\ phase = "up"
    /\ threads[t].pc = "in"
    /\ threads[t].stage = "read"
    /\ get_file(Cur, threads[t].entry[1].file_id) # None
    /\ \E c \in {threads[t]} :
       \E f \in {get_file(Cur, c.entry[1].file_id)[1].file} :
       \E r \in {read_exact(store[f], IF f \in DOMAIN cursor THEN cursor[f] ELSE 0,
                            c.entry[1].value_sz)} :
          /\ cursor' = file_seek(cursor, f, r.pos)
          /\ threads' = [threads EXCEPT ![t] =
                IF r.ret # "Ok"
                THEN [c EXCEPT !.stage = "ret", !.out = [ret |-> r.ret, out |-> None]]
                ELSE IF c.op = "get"
                THEN [c EXCEPT !.stage = "ret", !.out = [ret |-> "Ok", out |-> Some(r.out)]]
                ELSE IF Len(c.keys) = 1
                THEN [c EXCEPT !.stage = "ret", !.keys = << >>,
                               !.out = [ret |-> "Ok",
                                        out |-> Append(c.acc, <<Head(c.keys), r.out>>)]]
                ELSE [c EXCEPT !.stage = "seek", !.keys = Tail(c.keys),
                               !.acc = Append(c.acc, <<Head(c.keys), r.out>>)]]
    /\ EngineSame
    /\ UNCHANGED <<res, lock>>

\* Where an append leaves the position of the File appended to: at its end.
appended_at(c, fs, st) ==
    IF fs = << >> THEN c ELSE file_seek(c, Last(fs).file, Len(st[Last(fs).file]))

\* put, delete, sync and close inside the storage: the call returns `r`.
Run(t) ==
    /\ phase = "up"
    /\ threads[t].pc = "in"
    /\ threads[t].stage = "run"
    /\ \E c \in {threads[t]} :
       \E r \in {CASE c.op = "put" -> BitCask_put(Cur, mutable, c.key[1], c.value[1], NoFault)
                  [] c.op = "delete" -> BitCask_delete(Cur, mutable, c.key[1], NoFault)
                  [] OTHER -> BitCask_sync(Cur)} :
          /\ Install(r.st)
          /\ cursor' = IF c.op \in {"put", "delete"} /\ r.ret = "Ok"
                       THEN appended_at(cursor, r.st.files, r.st.store)
                       ELSE cursor
          /\ threads' = [threads EXCEPT ![t].stage = "ret",
                                        ![t].out = [ret |-> r.ret, out |-> << >>]]
    /\ UNCHANGED <<phase, mutable, res, nops, nfaults, last, closedView, codec, lock>>

\* Storage::merge, one turn of its loop, for the key `k` whose keydir entry
\* is `e`: get returns `g`, and put_on_merge `p`.
MergeKey(t) ==
    /\ phase = "up"
    /\ threads[t].pc = "in"
    /\ threads[t].stage = "merge"
    /\ threads[t].keys # << >>
    /\ \E k \in {Head(threads[t].keys)} :
       \E g \in {Storage_get(Cur, k)} :
          IF g.ret # "Ok" \/ g.out = None
          THEN /\ threads' = [threads EXCEPT ![t].stage = "ret",
                      ![t].out = [ret |-> IF g.ret = "Ok" THEN "panic" ELSE g.ret,
                                  out |-> << >>]]
               /\ UNCHANGED <<files, cur_file_sz, merged_files, cur_merged_file_sz,
                              keydir, dir, store, cursor>>
          ELSE \E e \in {keydir[k]} :
               \E p \in {Storage_put_on_merge(Cur, k, g.out[1], NoFault)} :
                  /\ Install(p.st)
                  /\ cursor' = appended_at(
                         file_seek(cursor, files[e.file_id + 1].file,
                                   e.value_pos + e.value_sz),
                         p.st.merged_files, p.st.store)
                  /\ threads' = IF p.ret = "Ok"
                                THEN [threads EXCEPT ![t].keys = Tail(@)]
                                ELSE [threads EXCEPT ![t].stage = "ret",
                                        ![t].out = [ret |-> p.ret, out |-> << >>]]
    /\ UNCHANGED <<phase, mutable, res, nops, nfaults, last, closedView, codec, lock>>

\* Storage::merge after its loop: finish_merge.
MergeFinish(t) ==
    /\ phase = "up"
    /\ threads[t].pc = "in"
    /\ threads[t].stage = "merge"
    /\ threads[t].keys = << >>
    /\ \E r \in {finish_merge(Cur, NoFault)} :
          /\ Install(r.st)
          /\ threads' = [threads EXCEPT ![t].stage = "ret",
                                        ![t].out = [ret |-> r.ret, out |-> << >>]]
    /\ UNCHANGED <<phase, mutable, res, nops, nfaults, last, closedView, codec, lock,
                   cursor>>

\* The call returns: the guard is dropped.  A panic ends the session.
Release(t) ==
    /\ phase = "up"
    /\ threads[t].pc = "in"
    /\ threads[t].stage = "ret"
    /\ lock' = [readers |-> lock.readers \ {t},
                writer |-> IF lock.writer = Some(t) THEN None ELSE lock.writer]
    /\ threads' = [threads EXCEPT ![t] = [pc |-> "done"]]
    /\ res' = Result(threads[t].op, threads[t].key, threads[t].value,
                     threads[t].out.ret, threads[t].out.out)
    /\ IF threads[t].out.ret = "panic"
       THEN Install(drop_handle(Cur)) /\ phase' = "down"
       ELSE UNCHANGED <<phase, files, cur_file_sz, merged_files, cur_merged_file_sz,
                        keydir, dir, store>>
    /\ UNCHANGED <<mutable, nops, nfaults, last, closedView, codec, cursor>>

NextLock ==
    \/ \E m \in BOOLEAN : dir = << >> /\ Open(m, << >>)
    \/ \E k \in Keys : \E v \in OrderValues :
          (\A t \in Threads : threads[t].pc = "idle") /\ PutIn(MaxLockSetup, k, v)
    \/ \E t \in Threads : \E c \in LockCalls : Call(t, c)
    \/ \E t \in Threads : Refuse(t)
    \/ \E t \in Threads : Acquire(t)
    \/ \E t \in Threads : Seek(t)
    \/ \E t \in Threads : Read(t)
    \/ \E t \in Threads : Run(t)
    \/ \E t \in Threads : MergeKey(t)
    \/ \E t \in Threads : MergeFinish(t)
    \/ \E t \in Threads : Release(t)

SpecLock == Init /\ [][NextLock]_vars

\* ------------------------------------------------------------------- codec

\* SpecCodec runs the record codec on its own: a record built by
\* new_live_entry or new_tombstone_entry is serialized, and the bytes are
\* deserialized.
CodecBytes(S) == {<< >>} \cup {<<a>> : a \in S} \cup {<<a, b>> : a \in S, b \in S}

CodecEntries ==
    {new_live_entry(k, v) : k \in CodecBytes({1, 2}), v \in CodecBytes({5, 6})}
    \cup {new_tombstone_entry(k) : k \in CodecBytes({1, 2})}

InitCodec ==
    /\ phase = "down"
    /\ mutable = FALSE
    /\ files = << >>
    /\ cur_file_sz = 0
    /\ merged_files = << >>
    /\ cur_merged_file_sz = 0
    /\ keydir = << >>
    /\ dir = << >>
    /\ store = << >>
    /\ res = Result("none", None, None, "Ok", << >>)
    /\ nops = 0
    /\ nfaults = 0
    /\ last = NoWrites
    /\ closedView = NoView
    /\ lock = [readers |-> {}, writer |-> None]
    /\ threads = [t \in Threads |-> [pc |-> "idle"]]
    /\ cursor = << >>
    /\ \E e \in CodecEntries :
          codec = [stage |-> "entry", entry |-> e, wire |-> << >>,
                   decoded |-> [ret |-> "none", entry |-> None]]

EngineUnchanged ==
    UNCHANGED <<phase, mutable, files, cur_file_sz, merged_files, cur_merged_file_sz,
                keydir, dir, store, res, nops, nfaults, last, closedView, conc>>

CodecSerialize ==
    /\ codec.stage = "entry"
    /\ codec' = [codec EXCEPT !.stage = "wire", !.wire = serialize(codec.entry)]
    /\ EngineUnchanged

CodecDeserialize ==
    /\ codec.stage = "wire"
    /\ codec' = [codec EXCEPT !.stage = "decoded", !.decoded = deserialize(codec.wire)]
    /\ EngineUnchanged

NextCodec == CodecSerialize \/ CodecDeserialize

SpecCodec == InitCodec /\ [][NextCodec]_vars

\* ------------------------------------------------------------------ claims

Ok(out) == [ret |-> "Ok", out |-> out]

\* The records a segment's bytes decode to, up to the first that does not
\* decode.
RECURSIVE records_of(_)
RECURSIVE records_next(_, _)
records_of(buf) ==
    IF buf = << >> THEN << >> ELSE records_next(deserialize(buf), buf)

records_next(d, buf) ==
    IF d.ret # "Ok" THEN << >>
    ELSE <<d.entry[1]>> \o records_of(SubSeq(buf, total_size(d.entry[1]) + 1, Len(buf)))

\* The recovery scan of a segment fails on some record.
Undecodable(bytes) == populate_keydir(bytes, 0, << >>).ret # "Ok"

\* C1: after close, reopening the same data directory yields a store whose
\* get (for every key), list_keys and fold results are those observed just
\* before close.
C1_ReopenKeepsView ==
    (phase = "up" /\ closedView # NoView) => View(Cur) = closedView

\* C2: in an open session, get(k) returns the value of the most recent
\* acknowledged put(k, v) when that put is k's most recent acknowledged write,
\* whatever merges, syncs and writes of other keys have followed.
C2_GetReturnsLastPut ==
    phase = "up" =>
        \A k \in Keys :
            (last[k] # << >> /\ last[k][1] = "put") => BitCask_get(Cur, k) = Ok(Some(last[k][2]))

\* C2 happens: after a merge, one key's last write is a put of a two-byte
\* value and the other's a put of the zero-length value.
C2_Witness ==
    /\ phase = "up"
    /\ res.op = "merge" /\ res.ret = "Ok"
    /\ \E k1, k2 \in Keys : last[k1] = <<"put", <<6, 7>>>> /\ last[k2] = <<"put", << >>>>

\* C3: in an open session, when k's most recent acknowledged write is a
\* delete, get(k) returns None and k is not in list_keys.
C3_DeletedStaysAbsent ==
    phase = "up" =>
        \A k \in Keys :
            last[k] = <<"delete">> =>
                /\ BitCask_get(Cur, k) = Ok(None)
                /\ \A i \in DOMAIN BitCask_list_keys(Cur).out : BitCask_list_keys(Cur).out[i] # k

\* C3 happens: a merge has run after the delete of a key that had a record,
\* and another key is live.
C3_Witness ==
    /\ phase = "up"
    /\ res.op = "merge" /\ res.ret = "Ok"
    /\ keydir # << >>
    /\ \E k \in Keys : last[k] = <<"delete">>

\* C4: a successful merge changes neither list_keys nor the result of get for
\* any key (nor, therefore, fold).
C4_MergeKeepsView ==
    [][(phase = "up" /\ res'.op = "merge" /\ res'.ret = "Ok") => View(Cur)' = View(Cur)]_vars

\* C4 happens: a merge of two live keys has succeeded and has rotated its
\* output into a second segment.
C4_Witness ==
    /\ phase = "up"
    /\ res.op = "merge" /\ res.ret = "Ok"
    /\ Cardinality(DOMAIN keydir) = 2
    /\ Len(files) = 2

\* C5: deserialize(serialize(R)) = R for every record R built by
\* new_live_entry or new_tombstone_entry: the same key, value bytes and
\* live/tombstone status.
C5_RoundTrip ==
    codec.stage = "decoded" =>
        /\ codec.decoded.ret = "Ok"
        /\ codec.decoded.entry = Some(codec.entry)

\* C6: a merge that returns an error leaves list_keys and every get as they
\* were before the call; a merge that succeeds leaves every keydir entry
\* pointing into the new segment list.
C6_MergeIsAtomic ==
    [][(phase = "up" /\ res'.op = "merge") =>
          IF res'.ret = "Ok"
          THEN \A k \in DOMAIN keydir' : keydir'[k].file_id + 1 \in DOMAIN files'
          ELSE phase' = "up" /\ View(Cur)' = View(Cur)]_vars

\* C7: when the recovery scan of some segment fails to decode a record, open
\* fails with DataError and returns no engine.
C7_DecodeFailureIsDataError ==
    (res.op = "open" /\ \E path \in TdbPaths(dir) : Undecodable(store[dir[path]]))
        => (res.ret = "DataError" /\ phase = "down")

\* C8: on a read-only store every put and delete returns OptionError and
\* changes neither the keydir nor any segment nor what get, list_keys and fold
\* return; the reading calls return a result.
C8_ReadOnlyRejectsWrites ==
    [][(phase = "up" /\ ~mutable) =>
          /\ res'.op \in {"put", "delete"} =>
                /\ res'.ret = "OptionError"
                /\ UNCHANGED <<files, cur_file_sz, merged_files, cur_merged_file_sz,
                               keydir, dir, store>>
                /\ View(Cur)' = View(Cur)
          /\ res'.op \in {"get", "list_keys", "fold"} => res'.ret = "Ok"]_vars

\* C8 happens: a put has been rejected on a read-only store that holds a key.
C8_Witness ==
    /\ phase = "up" /\ ~mutable
    /\ res.op = "put" /\ res.ret = "OptionError"
    /\ keydir # << >>

\* C9: a put or delete that fails with an I/O error leaves the keydir, and
\* with it list_keys and every get, as they were before the call.
C9_FailedWriteKeepsKeydir ==
    [][(phase = "up" /\ res'.op \in {"put", "delete"} /\ res'.ret = "IOError") =>
          /\ keydir' = keydir
          /\ View(Cur)' = View(Cur)]_vars

\* C10: after a completed merge no segment file of the data directory holds
\* a tombstone record for a surviving key.
C10_NoTombstoneOfSurvivor ==
    (phase = "up" /\ res.op = "merge" /\ res.ret = "Ok") =>
        \A path \in DOMAIN dir :
            \A i \in DOMAIN records_of(store[dir[path]]) :
                is_tombstone(records_of(store[dir[path]])[i])
                    => records_of(store[dir[path]])[i].key \notin DOMAIN keydir

\* C11: after a merge that returns Ok the data directory holds only "tdb"
\* files: every segment of the new segment list is in the directory under its
\* "tdb" name, and no "merge" file is left.
C11_OnlyTdbAfterMerge ==
    (phase = "up" /\ res.op = "merge" /\ res.ret = "Ok") =>
        /\ \A name \in DOMAIN dir : name[2] = EXTENSION
        /\ \A i \in DOMAIN files :
              /\ files[i].path = <<files[i].file_id, EXTENSION>>
              /\ files[i].path \in DOMAIN dir
              /\ dir[files[i].path] = files[i].file

\* a is before b in the lexicographic order of byte strings: they agree on
\* their first n bytes, and then a ends, or a's next byte is the smaller.
LexLess(a, b) ==
    \E n \in 0..Len(a) :
        /\ n <= Len(b)
        /\ \A i \in 1..n : a[i] = b[i]
        /\ \/ n = Len(a) /\ n < Len(b)
           \/ n < Len(a) /\ n < Len(b) /\ a[n + 1] < b[n + 1]

\* C12: list_keys returns the live keys (the keys of the keydir), each once,
\* in ascending lexicographic byte order, and fold visits the keys of
\* list_keys in that order, each once, with the value get returns for the key.
C12_ListKeysSortedFoldInOrder ==
    phase = "up" =>
        /\ BitCask_list_keys(Cur).ret = "Ok"
        /\ {BitCask_list_keys(Cur).out[i] : i \in DOMAIN BitCask_list_keys(Cur).out}
              = DOMAIN keydir
        /\ \A i, j \in DOMAIN BitCask_list_keys(Cur).out :
              i < j => LexLess(BitCask_list_keys(Cur).out[i], BitCask_list_keys(Cur).out[j])
        /\ BitCask_fold(Cur) =
              Ok([i \in DOMAIN BitCask_list_keys(Cur).out |->
                    <<BitCask_list_keys(Cur).out[i],
                      BitCask_get(Cur, BitCask_list_keys(Cur).out[i]).out[1]>>])
        /\ res.op = "list_keys" => res.out = BitCask_list_keys(Cur).out
        /\ res.op = "fold" => res.out = BitCask_fold(Cur).out

\* C12 happens: fold has returned with all four keys live.
C12_Witness ==
    /\ phase = "up"
    /\ res.op = "fold" /\ res.ret = "Ok"
    /\ DOMAIN keydir = OrderKeys
    /\ Len(res.out) = 4

\* C13: get, list_keys and fold hold the lock in shared mode, put, delete,
\* merge, sync and close in exclusive mode; a thread inside the storage for a
\* put, delete, merge, sync or close is alone there, and no get, list_keys or
\* fold is inside the storage while a merge is between two of its steps (a
\* key rewritten into a merge segment that is not in the segment list yet).
C13_ReadersExcludedFromWriters ==
    \A t \in Threads :
        threads[t].pc = "in" =>
            /\ threads[t].op \in {"get", "list_keys", "fold"} =>
                  /\ t \in lock.readers
                  /\ lock.writer = None
                  /\ merged_files = << >>
            /\ threads[t].op \in {"put", "delete", "merge", "sync", "close"} =>
                  /\ lock.writer = Some(t)
                  /\ lock.readers = {}
                  /\ \A u \in Threads \ {t} : threads[u].pc # "in"

\* C13 happens: a get waits for the lock while a merge is between two of its
\* steps, one key rewritten into a merge segment and one still to go.
C13_Witness ==
    \E t, u \in Threads :
        /\ threads[t].pc = "in"
        /\ threads[t].op = "merge"
        /\ threads[t].stage = "merge"
        /\ merged_files # << >>
        /\ Len(threads[t].keys) = 1
        /\ threads[u].pc = "wait"
        /\ threads[u].op = "get"

\* C20: a get or a fold that runs under the shared lock while other gets and
\* folds read the same segment through its one File returns what it returns
\* when it runs alone: for every key the value of the last put that returned
\* before the readers started, never bytes of another key's value.
C20_ConcurrentReadsReturnLatest ==
    \A t \in Threads :
        (threads[t].pc = "in" /\ threads[t].stage = "ret") =>
            /\ threads[t].op = "get" =>
                  threads[t].out = BitCask_get(Cur, threads[t].key[1])
            /\ threads[t].op = "fold" =>
                  /\ threads[t].out.ret = "Ok"
                  /\ threads[t].out = BitCask_fold(Cur)

\* C14: every record being within the segment limit, after any sequence of
\* put, delete, merge, close and reopen every segment file of the data
\* directory holds at most the segment limit of bytes.
C14_SegmentsWithinLimit ==
    \A name \in DOMAIN dir : Len(store[dir[name]]) <= MAX_FILE_SIZE

\* C15: an open leaves the keydir that the recovery scan builds when it
\* replays the "tdb" segments in ascending file-id order, in whatever order
\* the directory lists them: a record in a segment of a higher file-id
\* overrides a record of the same key in a lower one.
C15_ReplayInFileIdOrder ==
    [][(phase = "down" /\ phase' = "up") =>
          \A paths \in Orders(TdbPaths(dir)) :
              (\A i, j \in DOMAIN paths : i < j => paths[i][1] < paths[j][1]) =>
                  keydir' = Storage_new(Cur, paths).st.keydir]_vars

\* C16: the file-ids of the "tdb" segments follow the order of writing: a
\* step that writes records into the segment of file-id i (the segment is
\* new, is replaced by a merge output, or grows) leaves no segment of a
\* higher file-id that holds records written before the step.
C16_FileIdOrderIsWriteOrder ==
    [][\A n \in TdbPaths(dir') :
          (\/ n \notin DOMAIN dir
           \/ dir'[n] # dir[n]
           \/ Len(store'[dir'[n]]) > Len(store[dir[n]])) /\ store'[dir'[n]] # << >> =>
              \A m \in TdbPaths(dir') :
                  (m[1] > n[1] /\ m \in DOMAIN dir /\ dir'[m] = dir[m]) =>
                      store[dir[m]] = << >>]_vars

\* C17: whenever an engine is open and no call is in progress, the recovery
\* scan over the segments of the segment list, in list order, yields the
\* keydir: the same keys, with the same file-id, value size and value offset.
C17_ReplayYieldsKeydir ==
    phase = "up" =>
        /\ open_all(Cur, [i \in DOMAIN files |-> files[i].path], << >>, << >>).ret = "Ok"
        /\ open_all(Cur, [i \in DOMAIN files |-> files[i].path], << >>, << >>).keydir
              = keydir

\* C18: the data directory having started empty, whenever an engine is open
\* and no call is in progress, the segment at position i of the segment list
\* has file-id i (counting from 0), every keydir entry's file-id is a
\* position of the list, and the value-size bytes at its value offset in that
\* segment (Log_get) are the key's latest value: the value of its last put in
\* the session, or, for a key not written since the open, the value get
\* returned before the close.
C18_OrdinalLookupFindsLatest ==
    phase = "up" =>
        /\ \A i \in DOMAIN files : files[i].file_id = i - 1
        /\ \A k \in DOMAIN keydir :
              /\ keydir[k].file_id + 1 \in DOMAIN files
              /\ (k \in Keys /\ last[k] # << >>) =>
                    /\ last[k][1] = "put"
                    /\ Log_get(Cur, keydir[k]) = Ok(Some(last[k][2]))
              /\ (k \in Keys /\ last[k] = << >> /\ closedView # NoView) =>
                    Log_get(Cur, keydir[k]) = closedView.get[k]

\* C19: an append (a put or a delete that returns Ok) of a record of total
\* size sz = 20 + key size + value size goes to a newly created active
\* segment, of the previous active segment's file-id plus 1 and with the
\* counter started at 0, exactly when counter + sz exceeds the segment limit,
\* and to the current active segment otherwise; the counter then has grown by
\* sz, and the keydir entry a put stores is (file-id of the receiving segment,
\* value size, the receiving segment's length before the append + 20 + key
\* size).
C19_AppendRouting ==
    [][(phase = "up" /\ res'.op \in {"put", "delete"} /\ res'.ret = "Ok") =>
          \E k \in {res'.key[1]} :
          \E vsz \in {IF res'.op = "put" THEN Len(res'.value[1]) ELSE 0} :
          \E sz \in {20 + Len(k) + vsz} :
          \E before \in {IF cur_file_sz + sz > MAX_FILE_SIZE
                         THEN IF <<Last(files).file_id + 1, EXTENSION>> \in DOMAIN dir
                              THEN Len(store[dir[<<Last(files).file_id + 1, EXTENSION>>]])
                              ELSE 0
                         ELSE Len(store[Last(files).file])} :
              /\ IF cur_file_sz + sz > MAX_FILE_SIZE
                 THEN /\ Len(files') = Len(files) + 1
                      /\ SubSeq(files', 1, Len(files)) = files
                      /\ Last(files').file_id = Last(files).file_id + 1
                      /\ cur_file_sz' = 0 + sz
                 ELSE /\ files' = files
                      /\ cur_file_sz' = cur_file_sz + sz
              /\ Len(store'[Last(files').file]) = before + sz
              /\ res'.op = "put" =>
                    keydir'[k] = KeyDirEntry(Last(files').file_id, vsz, before + 20 + Len(k))
      ]_vars

\* C19 happens: a put has rotated into a second segment, and its record is
\* the only one the counter has counted.
C19_Witness ==
    /\ phase = "up"
    /\ res.op = "put" /\ res.ret = "Ok"
    /\ Len(files) = 2
    /\ cur_file_sz = 20 + Len(res.key[1]) + Len(res.value[1])
    /\ keydir[res.key[1]].file_id = 1

\* C21: whenever an engine is open and no call is in progress (after open
\* and after every put, delete, merge and sync, a merge with no live key
\* among them) the segment list is not empty, and no put or delete aborts for
\* want of an active segment.
C21_ActiveSegmentAlways ==
    /\ phase = "up" => files # << >>
    /\ res.op \in {"put", "delete"} => res.ret # "panic"

\* C22: a step that creates a new active segment (an open, or a put or
\* delete that rotates, after a merge or not) finds no "tdb" file of the new
\* segment's file-id in the data directory: the segment starts empty, and the
\* byte counter equals the length of its file.
C22_NewActiveSegmentIsFresh ==
    [][(/\ phase' = "up"
        /\ res'.ret = "Ok"
        /\ \/ phase = "down" /\ res'.op = "open"
           \/ res'.op \in {"put", "delete"} /\ Len(files') = Len(files) + 1) =>
          /\ <<Last(files').file_id, EXTENSION>> \notin DOMAIN dir
          /\ Len(store'[Last(files').file]) = cur_file_sz'
      ]_vars

\* C23: on a store opened read-only no call (get, put, delete, list_keys,
\* fold, merge, sync, close) changes the data directory: the same segment
\* files, each with the bytes it had.
C23_ReadOnlyLeavesFilesAlone ==
    [][(phase = "up" /\ ~mutable) =>
          /\ DOMAIN dir' = DOMAIN dir
          /\ \A name \in DOMAIN dir : store'[dir'[name]] = store[dir[name]]
      ]_vars

====
